---- MODULE Spec2Model ----
(***************************************************************************)
(* HYBRIDJOIN pipeline of src/src/hybridjoin.py:                           *)
(*   StreamProducer -> HybridJoinConsumer (Customer) -> HybridJoinConsumer *)
(*   (Product, final stage) -> Fact_Sales, orchestrated by main().         *)
(* Stage 1 is the customer join, stage 2 the product join.  The FIFO of a  *)
(* stage is the DoublyLinkedList of doubly_linked_list.py, modelled with   *)
(* its head/tail/size fields and its nodes' prev/next pointers (0 = None). *)
(*                                                                         *)
(* The capacities below keep the names of the program's constants; their   *)
(* values are scaled down so that every capacity is reached.  Telemetry    *)
(* that no behaviour depends on (iteration, disk_io_count, the report      *)
(* timers) is left out.                                                    *)
(***************************************************************************)
EXTENDS Integers, Sequences, FiniteSets, TLC

\* ---- program constants (hybridjoin.py:24-28), scaled down ----
HS == 2
VP == 2
STREAM_BUFFER_SIZE == 2
INTERMEDIATE_QUEUE_SIZE == 1
BATCH_INSERT_SIZE == 2
TOTAL_MEMORY_TUPLES ==
    (2 * HS) + (2 * VP) + STREAM_BUFFER_SIZE + INTERMEDIATE_QUEUE_SIZE + BATCH_INSERT_SIZE

\* ---- bounds of the model ----
MaxNodes == 4
MaxStream == 3
MaxKey == 2
MaxRel == 2
MaxFetchErrors == 1
MaxSinkFailures == 2

Stages == {1, 2}
Keys == 1..MaxKey
None == 0

VARIABLES
    df, producer_pc, total_streamed, producer_finished, consumer1_finished,
    stream_buffer, intermediate_queue,
    Master_Customer, Master_Product, dim_lookups,
    pc, w, tuples_loaded, hash_table, queue, oldest_key, disk_buffer, di,
    total_processed, total_joined, total_output,
    fact_batch, total_loaded, dropped_records, Fact_Sales,
    main_pc,
    removed, forwarded, fetch_faults, sink_faults

shared == <<stream_buffer, intermediate_queue, producer_finished, consumer1_finished>>
prodVars == <<df, producer_pc, total_streamed>>
relVars == <<Master_Customer, Master_Product, dim_lookups>>
winVars == <<w, tuples_loaded, hash_table, queue, oldest_key, disk_buffer, di>>
cntVars == <<total_processed, total_joined, total_output>>
sinkVars == <<fact_batch, total_loaded, dropped_records, Fact_Sales, sink_faults>>
histVars == <<removed, forwarded, fetch_faults>>
vars == <<shared, prodVars, relVars, pc, winVars, cntVars, sinkVars, main_pc, histVars>>

\* ---- sequences ----
RECURSIVE SortedSeqs(_, _)
\* All ascending sequences over 1..k of length n (a table loaded with
\* df.sort_values and read back with ORDER BY).
SortedSeqs(n, k) ==
    IF n = 0 THEN {<<>>}
    ELSE IF k = 0 THEN {}
    ELSE SortedSeqs(n, k - 1) \cup {Append(s, k) : s \in SortedSeqs(n - 1, k)}

Relations == UNION {SortedSeqs(n, MaxKey) : n \in 0..MaxRel}

SeqsUpTo(S, n) == UNION {[1..m -> S] : m \in 0..n}

\* ---- stream tuples ----
\* A stream tuple (hybridjoin.py:79-85): Order_ID is the row's position in
\* the input; CustRow / ProdRow are the enrichment fields a stage merges in
\* (the row of the master table that matched), None until merged.
StreamTuple(i, c, p) ==
    [Order_ID |-> i, Customer_ID |-> c, Product_ID |-> p, CustRow |-> None, ProdRow |-> None]

\* ---- DoublyLinkedList (doubly_linked_list.py) ----
\* A list is [head, tail, size, nodes]; nodes[n] = [key, prev, next] for the
\* n-th Node ever created; a removed node keeps its own prev/next fields.
EmptyList == [head |-> None, tail |-> None, size |-> 0, nodes |-> <<>>]

NewNode(q) == Len(q.nodes) + 1

DLLAppend(q, key) ==
    LET n == NewNode(q) IN
    IF q.tail = None
    THEN [head |-> n, tail |-> n, size |-> q.size + 1,
          nodes |-> Append(q.nodes, [key |-> key, prev |-> None, next |-> None])]
    ELSE [head |-> q.head, tail |-> n, size |-> q.size + 1,
          nodes |-> Append([q.nodes EXCEPT ![q.tail].next = n],
                           [key |-> key, prev |-> q.tail, next |-> None])]

\* DLLRemove without self.tail = node.prev (38-39).
DLLRemoveKeepsTail(q, n) ==
    IF n = None THEN q
    ELSE
      LET nd == q.nodes[n]
          n1 == IF nd.prev # None
                THEN [q.nodes EXCEPT ![nd.prev].next = nd.next]
                ELSE q.nodes
          h1 == IF nd.prev # None THEN q.head ELSE nd.next
          n2 == IF nd.next # None
                THEN [n1 EXCEPT ![nd.next].prev = nd.prev]
                ELSE n1
      IN [head |-> h1, tail |-> q.tail, size |-> q.size - 1, nodes |-> n2]

DLLRemove(q, n) ==
    IF n = None THEN q
    ELSE
      LET nd == q.nodes[n]
          n1 == IF nd.prev # None
                THEN [q.nodes EXCEPT ![nd.prev].next = nd.next]
                ELSE q.nodes
          h1 == IF nd.prev # None THEN q.head ELSE nd.next
          n2 == IF nd.next # None
                THEN [n1 EXCEPT ![nd.next].prev = nd.prev]
                ELSE n1
          t1 == IF nd.next # None THEN q.tail ELSE nd.prev
      IN [head |-> h1, tail |-> t1, size |-> q.size - 1, nodes |-> n2]

peek_front(q) == IF q.head # None THEN q.nodes[q.head].key ELSE None

is_empty(q) == q.size = 0

QLen(q) == q.size

RECURSIVE Walk(_, _, _)
\* The nodes reached from node n by following next, at most fuel of them.
Walk(q, n, fuel) ==
    IF n = None \/ fuel = 0 THEN <<>>
    ELSE <<n>> \o Walk(q, q.nodes[n].next, fuel - 1)

Linked(q) == Walk(q, q.head, Len(q.nodes) + 1)

\* ---- stage parameters (hybridjoin.py:413-436) ----
is_final_stage(s) == s = 2

JoinKey(s, t) == IF s = 1 THEN t.Customer_ID ELSE t.Product_ID

Relation(s) == IF s = 1 THEN Master_Customer ELSE Master_Product

input_queue(s) == IF s = 1 THEN stream_buffer ELSE intermediate_queue

upstream_finished(s) == IF s = 1 THEN producer_finished ELSE consumer1_finished

\* get_customer_partition / get_product_partition: WHERE key >= k ORDER BY
\* key LIMIT n.  A row is [key, row], row being its position in the table.
RECURSIVE RowsFrom(_, _, _)
RowsFrom(rel, i, k) ==
    IF i > Len(rel) THEN <<>>
    ELSE IF rel[i] >= k
         THEN <<[key |-> rel[i], row |-> i]>> \o RowsFrom(rel, i + 1, k)
         ELSE RowsFrom(rel, i + 1, k)

Limit(seq, n) == IF Len(seq) <= n THEN seq ELSE SubSeq(seq, 1, n)

partition_loader_func(s, k, n) == Limit(RowsFrom(Relation(s), 1, k), n)

\* enriched_tuple = stream_tuple.copy(); enriched_tuple.update(disk_record)
Enrich(s, t, r) ==
    IF s = 1 THEN [t EXCEPT !.Customer_ID = r.key, !.CustRow = r.row]
    ELSE [t EXCEPT !.Product_ID = r.key, !.ProdRow = r.row]

\* ---- hash_table: defaultdict(list) of (stream_tuple, queue_node) pairs ----
\* HAppend with insert(0, e) for append(e).
HPrepend(h, k, e) ==
    IF k \in DOMAIN h THEN [h EXCEPT ![k] = <<e>> \o @]
    ELSE [x \in DOMAIN h \cup {k} |-> IF x = k THEN <<e>> ELSE h[x]]

\* A key is in DOMAIN h when the dict holds it, possibly with an empty list.
HAppend(h, k, e) ==
    IF k \in DOMAIN h THEN [h EXCEPT ![k] = Append(@, e)]
    ELSE [x \in DOMAIN h \cup {k} |-> IF x = k THEN <<e>> ELSE h[x]]

HDel(h, k) == [x \in DOMAIN h \ {k} |-> h[x]]

\* ListRemove that leaves the list as it is.
ListRemoveNothing(seq, e) == seq

RECURSIVE ListRemove(_, _)
\* list.remove(e): drops the first element equal to e.
ListRemove(seq, e) ==
    IF seq = <<>> THEN <<>>
    ELSE IF Head(seq) = e THEN Tail(seq)
    ELSE <<Head(seq)>> \o ListRemove(Tail(seq), e)

RECURSIVE SumLen(_, _)
SumLen(h, ks) ==
    IF ks = {} THEN 0
    ELSE LET k == CHOOSE x \in ks : TRUE IN Len(h[k]) + SumLen(h, ks \ {k})

\* RemoveEntry that empties the whole bucket for one removed node.
RemoveEntryDropsBucket(st, k, e, how) ==
    [h |-> [st.h EXCEPT ![k] = <<>>],
     q |-> DLLRemove(st.q, e.node),
     w |-> st.w + 1,
     rem |-> Append(st.rem, [node |-> e.node, key |-> k, how |-> how])]

\* RemoveEntry without self.queue.remove(queue_node).
RemoveEntryKeepsNode(st, k, e, how) ==
    [h |-> [st.h EXCEPT ![k] = ListRemove(@, e)],
     q |-> st.q,
     w |-> st.w + 1,
     rem |-> Append(st.rem, [node |-> e.node, key |-> k, how |-> how])]

\* RemoveEntry with self.w += 2.
RemoveEntryFreesTwo(st, k, e, how) ==
    [h |-> [st.h EXCEPT ![k] = ListRemove(@, e)],
     q |-> DLLRemove(st.q, e.node),
     w |-> st.w + 2,
     rem |-> Append(st.rem, [node |-> e.node, key |-> k, how |-> how])]

\* RemoveEntry without self.w += 1.
RemoveEntryKeepsFree(st, k, e, how) ==
    [h |-> [st.h EXCEPT ![k] = ListRemove(@, e)],
     q |-> DLLRemove(st.q, e.node),
     w |-> st.w,
     rem |-> Append(st.rem, [node |-> e.node, key |-> k, how |-> how])]

\* One removal of the loops at hybridjoin.py:212-215, 221-224 and 233-236:
\* the pair leaves its bucket, its node leaves the FIFO, a slot is freed.
RemoveEntry(st, k, e, how) ==
    [h |-> [st.h EXCEPT ![k] = ListRemove(@, e)],
     q |-> DLLRemove(st.q, e.node),
     w |-> st.w + 1,
     rem |-> Append(st.rem, [node |-> e.node, key |-> k, how |-> how])]

RECURSIVE FlushLoop(_, _, _, _)
FlushLoop(st, k, matching_tuples, how) ==
    IF matching_tuples = <<>> THEN st
    ELSE FlushLoop(RemoveEntry(st, k, Head(matching_tuples), how), k,
                   Tail(matching_tuples), how)

\* Flush that empties the whole window, not only oldest_key's bucket.
FlushWholeWindow(st, k, how) ==
    [h |-> [x \in DOMAIN st.h |-> <<>>],
     q |-> [head |-> None, tail |-> None, size |-> 0, nodes |-> st.q.nodes],
     w |-> st.w + st.q.size,
     rem |-> st.rem \o [i \in 1..Len(Linked(st.q)) |->
                [node |-> Linked(st.q)[i], key |-> st.q.nodes[Linked(st.q)[i]].key,
                 how |-> how]]]

\* The flush of hybridjoin.py:210-215 (empty partition) and 219-224 (fetch
\* error): every pair of oldest_key's bucket is removed; the key stays in
\* the dict with an empty list.
Flush(st, k, how) ==
    IF k \in DOMAIN st.h THEN FlushLoop(st, k, st.h[k], how) ELSE st

WinState(s) == [h |-> hash_table[s], q |-> queue[s], w |-> w[s], rem |-> removed[s]]

\* ---- Init ----
Inputs ==
    {[i \in 1..Len(ks) |-> StreamTuple(i, ks[i][1], ks[i][2])] :
        ks \in SeqsUpTo(Keys \X Keys, MaxStream)}

\* load_dimension_lookups: every customer has a surrogate key; the product
\* with the largest id has none, so that both outcomes of a lookup occur.
DimLookups == [customer |-> Keys, product |-> Keys \ {MaxKey}]

\* The state when the three threads have been started (hybridjoin.py:439-441)
\* with window capacity hs, an input of inputs and master tables of
\* relations.  fetch_faults / sink_faults: how many calls of the partition
\* loader / of insert_fact_sales_batch may still raise.
StartedWith(hs, inputs, relations, ff, sf) ==
    /\ df \in inputs
    /\ producer_pc = "run"
    /\ total_streamed = 0
    /\ producer_finished = FALSE
    /\ consumer1_finished = FALSE
    /\ stream_buffer = <<>>
    /\ intermediate_queue = <<>>
    /\ Master_Customer \in relations
    /\ Master_Product = Master_Customer
    /\ dim_lookups = DimLookups
    /\ pc = [s \in Stages |-> "admit"]
    /\ w = [s \in Stages |-> hs]
    /\ tuples_loaded = [s \in Stages |-> 0]
    /\ hash_table = [s \in Stages |-> <<>>]
    /\ queue = [s \in Stages |-> EmptyList]
    /\ oldest_key = [s \in Stages |-> None]
    /\ disk_buffer = [s \in Stages |-> <<>>]
    /\ di = [s \in Stages |-> 1]
    /\ total_processed = [s \in Stages |-> 0]
    /\ total_joined = [s \in Stages |-> 0]
    /\ total_output = [s \in Stages |-> 0]
    /\ fact_batch = <<>>
    /\ total_loaded = 0
    /\ dropped_records = 0
    /\ Fact_Sales = <<>>
    /\ main_pc = "join_consumer1"
    /\ removed = [s \in Stages |-> <<>>]
    /\ forwarded = [s \in Stages |-> <<>>]
    /\ fetch_faults = ff
    /\ sink_faults = sf

Started(ff, sf) == StartedWith(HS, Inputs, Relations, ff, sf)

Init == Started(MaxFetchErrors, 0)

\* ---- StreamProducer.run (hybridjoin.py:78-114) ----
\* ProducerPut that puts the record at the front of the buffer.
ProducerPutFront ==
    /\ producer_pc = "run"
    /\ total_streamed < Len(df)
    /\ Len(stream_buffer) < STREAM_BUFFER_SIZE
    /\ stream_buffer' = <<df[total_streamed + 1]>> \o stream_buffer
    /\ total_streamed' = total_streamed + 1
    /\ UNCHANGED <<df, producer_pc, intermediate_queue, producer_finished,
                   consumer1_finished, relVars, pc, winVars, cntVars, sinkVars,
                   main_pc, histVars>>

ProducerPut ==
    /\ producer_pc = "run"
    /\ total_streamed < Len(df)
    /\ Len(stream_buffer) < STREAM_BUFFER_SIZE
    /\ stream_buffer' = Append(stream_buffer, df[total_streamed + 1])
    /\ total_streamed' = total_streamed + 1
    /\ UNCHANGED <<df, producer_pc, intermediate_queue, producer_finished,
                   consumer1_finished, relVars, pc, winVars, cntVars, sinkVars,
                   main_pc, histVars>>

ProducerFinish ==
    /\ producer_pc = "run"
    /\ total_streamed = Len(df)
    /\ producer_finished' = TRUE
    /\ producer_pc' = "done"
    /\ UNCHANGED <<df, total_streamed, stream_buffer, intermediate_queue,
                   consumer1_finished, relVars, pc, winVars, cntVars, sinkVars,
                   main_pc, histVars>>

\* ---- main (hybridjoin.py:443-446) ----
Terminated(s) == pc[s] \in {"done", "failed"}

\* MainSetFinished with consumer_product.join() moved before
\* consumer1_finished.set().
MainSetFinishedAfterConsumer2 ==
    /\ main_pc = "join_consumer1"
    /\ producer_pc = "done"
    /\ Terminated(1)
    /\ Terminated(2)
    /\ consumer1_finished' = TRUE
    /\ main_pc' = "join_consumer2"
    /\ UNCHANGED <<stream_buffer, intermediate_queue, producer_finished, prodVars,
                   relVars, pc, winVars, cntVars, sinkVars, histVars>>

\* MainSetFinished without consumer_customer.join() (444).
MainSetFinishedEarly ==
    /\ main_pc = "join_consumer1"
    /\ producer_pc = "done"
    /\ consumer1_finished' = TRUE
    /\ main_pc' = "join_consumer2"
    /\ UNCHANGED <<stream_buffer, intermediate_queue, producer_finished, prodVars,
                   relVars, pc, winVars, cntVars, sinkVars, histVars>>

\* MainSetFinished that clears producer_finished as it sets
\* consumer1_finished.
MainSetFinishedClears ==
    /\ main_pc = "join_consumer1"
    /\ producer_pc = "done"
    /\ Terminated(1)
    /\ consumer1_finished' = TRUE
    /\ producer_finished' = FALSE
    /\ main_pc' = "join_consumer2"
    /\ UNCHANGED <<stream_buffer, intermediate_queue, prodVars,
                   relVars, pc, winVars, cntVars, sinkVars, histVars>>

\* producer.join(); consumer_customer.join(); consumer1_finished.set()
\* (443-445).  join() returns when the thread has ended, normally or not.
MainSetFinished ==
    /\ main_pc = "join_consumer1"
    /\ producer_pc = "done"
    /\ Terminated(1)
    /\ consumer1_finished' = TRUE
    /\ main_pc' = "join_consumer2"
    /\ UNCHANGED <<stream_buffer, intermediate_queue, producer_finished, prodVars,
                   relVars, pc, winVars, cntVars, sinkVars, histVars>>

\* consumer_product.join() (446).
MainJoinConsumer2 ==
    /\ main_pc = "join_consumer2"
    /\ Terminated(2)
    /\ main_pc' = "report"
    /\ UNCHANGED <<shared, prodVars, relVars, pc, winVars, cntVars, sinkVars, histVars>>

\* The report (448-493): "CHAINED HYBRIDJOIN ETL PROCESS COMPLETED
\* SUCCESSFULLY" is printed (451) whatever way the threads ended; the join
\* rates (460, 466) then divide by each stage's total_processed, and an
\* exception ends main through its handler (495-497).
MainReport ==
    /\ main_pc = "report"
    /\ main_pc' = IF total_processed[1] = 0 \/ total_processed[2] = 0
                  THEN "failed" ELSE "done"
    /\ UNCHANGED <<shared, prodVars, relVars, pc, winVars, cntVars, sinkVars, histVars>>

\* ---- HybridJoinConsumer._write_fact_to_batch (hybridjoin.py:305-362) ----
\* LookupMiss that tests the customer key only.
LookupMissCustomerOnly(e) == e.Customer_ID \notin dim_lookups.customer

\* dim_lookups[...].get(id) is None when the id has no surrogate key.  The
\* store and supplier lookups are keyed by fields of the product row and
\* are folded into the product lookup.
LookupMiss(e) ==
    \/ e.Customer_ID \notin dim_lookups.customer
    \/ e.Product_ID \notin dim_lookups.product

\* WriteFactToBatch without the return of line 327: a tuple with a lookup
\* miss is counted as dropped and appended as well.
WriteFactToBatchKeepsMiss(e) ==
    LET batch == Append(fact_batch, e.Order_ID) IN
    /\ dropped_records' = dropped_records + (IF LookupMiss(e) THEN 1 ELSE 0)
    /\ IF Len(batch) >= BATCH_INSERT_SIZE
       THEN /\ Fact_Sales' = Fact_Sales \o batch
            /\ total_loaded' = total_loaded + Len(batch)
            /\ fact_batch' = <<>>
            /\ UNCHANGED sink_faults
       ELSE /\ fact_batch' = batch
            /\ UNCHANGED <<total_loaded, Fact_Sales, sink_faults>>

\* WriteFactToBatch with len(batch) > BATCH_INSERT_SIZE for >= (353).
WriteFactToBatchLate(e) ==
    IF LookupMiss(e)
    THEN /\ dropped_records' = dropped_records + 1
         /\ UNCHANGED <<fact_batch, total_loaded, Fact_Sales, sink_faults>>
    ELSE LET batch == Append(fact_batch, e.Order_ID) IN
         IF Len(batch) > BATCH_INSERT_SIZE
         THEN \/ /\ Fact_Sales' = Fact_Sales \o batch
                 /\ total_loaded' = total_loaded + Len(batch)
                 /\ fact_batch' = <<>>
                 /\ UNCHANGED <<dropped_records, sink_faults>>
              \/ /\ sink_faults > 0
                 /\ sink_faults' = sink_faults - 1
                 /\ fact_batch' = batch
                 /\ dropped_records' = dropped_records + 1
                 /\ UNCHANGED <<total_loaded, Fact_Sales>>
         ELSE /\ fact_batch' = batch
              /\ UNCHANGED <<total_loaded, dropped_records, Fact_Sales, sink_faults>>

\* insert_fact_sales_batch (db_utils.py:648-668) either stores the whole
\* batch and returns its length, or raises.
WriteFactToBatch(e) ==
    IF LookupMiss(e)
    THEN /\ dropped_records' = dropped_records + 1
         /\ UNCHANGED <<fact_batch, total_loaded, Fact_Sales, sink_faults>>
    ELSE LET batch == Append(fact_batch, e.Order_ID) IN
         IF Len(batch) >= BATCH_INSERT_SIZE
         THEN \/ /\ Fact_Sales' = Fact_Sales \o batch
                 /\ total_loaded' = total_loaded + Len(batch)
                 /\ fact_batch' = <<>>
                 /\ UNCHANGED <<dropped_records, sink_faults>>
              \/ /\ sink_faults > 0
                 /\ sink_faults' = sink_faults - 1
                 /\ fact_batch' = batch
                 /\ dropped_records' = dropped_records + 1
                 /\ UNCHANGED <<total_loaded, Fact_Sales>>
         ELSE /\ fact_batch' = batch
              /\ UNCHANGED <<total_loaded, dropped_records, Fact_Sales, sink_faults>>

\* ---- HybridJoinConsumer.run (hybridjoin.py:167-250) ----
\* pc[s]: "admit" (172-185), "check_event" / "check_input" (the two reads
\* of line 188), "probe" (195-225), "match" (227-250), "finish" (273-295),
\* "done", "failed" (the thread ended with an exception).

TakeInput(s) ==
    IF s = 1
    THEN /\ stream_buffer' = Tail(stream_buffer)
         /\ UNCHANGED intermediate_queue
    ELSE /\ intermediate_queue' = Tail(intermediate_queue)
         /\ UNCHANGED stream_buffer

\* Admit without self.total_processed += 1 (180).
AdmitUncounted(s) ==
    /\ pc[s] = "admit"
    /\ w[s] > 0
    /\ tuples_loaded[s] < w[s]
    /\ input_queue(s) # <<>>
    /\ LET stream_tuple == Head(input_queue(s))
           join_key == JoinKey(s, stream_tuple)
           queue_node == NewNode(queue[s])
       IN /\ queue' = [queue EXCEPT ![s] = DLLAppend(@, join_key)]
          /\ hash_table' = [hash_table EXCEPT ![s] =
                 HAppend(@, join_key, [t |-> stream_tuple, node |-> queue_node])]
    /\ TakeInput(s)
    /\ tuples_loaded' = [tuples_loaded EXCEPT ![s] = @ + 1]
    /\ UNCHANGED <<producer_finished, consumer1_finished, prodVars, relVars, pc, w,
                   oldest_key, disk_buffer, di, cntVars, sinkVars,
                   main_pc, histVars>>

\* Admit that takes the newest tuple of the input queue, not the oldest.
AdmitNewest(s) ==
    /\ pc[s] = "admit"
    /\ w[s] > 0
    /\ tuples_loaded[s] < w[s]
    /\ input_queue(s) # <<>>
    /\ LET stream_tuple == input_queue(s)[Len(input_queue(s))]
           join_key == JoinKey(s, stream_tuple)
           queue_node == NewNode(queue[s])
       IN /\ queue' = [queue EXCEPT ![s] = DLLAppend(@, join_key)]
          /\ hash_table' = [hash_table EXCEPT ![s] =
                 HAppend(@, join_key, [t |-> stream_tuple, node |-> queue_node])]
    /\ IF s = 1
       THEN /\ stream_buffer' = SubSeq(stream_buffer, 1, Len(stream_buffer) - 1)
            /\ UNCHANGED intermediate_queue
       ELSE /\ intermediate_queue' = SubSeq(intermediate_queue, 1, Len(intermediate_queue) - 1)
            /\ UNCHANGED stream_buffer
    /\ tuples_loaded' = [tuples_loaded EXCEPT ![s] = @ + 1]
    /\ total_processed' = [total_processed EXCEPT ![s] = @ + 1]
    /\ UNCHANGED <<producer_finished, consumer1_finished, prodVars, relVars, pc, w,
                   oldest_key, disk_buffer, di, total_joined, total_output, sinkVars,
                   main_pc, histVars>>

\* One pass of the admission loop (173-180).
Admit(s) ==
    /\ pc[s] = "admit"
    /\ w[s] > 0
    /\ tuples_loaded[s] < w[s]
    /\ input_queue(s) # <<>>
    /\ LET stream_tuple == Head(input_queue(s))
           join_key == JoinKey(s, stream_tuple)
           queue_node == NewNode(queue[s])
       IN /\ queue' = [queue EXCEPT ![s] = DLLAppend(@, join_key)]
          /\ hash_table' = [hash_table EXCEPT ![s] =
                 HAppend(@, join_key, [t |-> stream_tuple, node |-> queue_node])]
    /\ TakeInput(s)
    /\ tuples_loaded' = [tuples_loaded EXCEPT ![s] = @ + 1]
    /\ total_processed' = [total_processed EXCEPT ![s] = @ + 1]
    /\ UNCHANGED <<producer_finished, consumer1_finished, prodVars, relVars, pc, w,
                   oldest_key, disk_buffer, di, total_joined, total_output, sinkVars,
                   main_pc, histVars>>

\* AdmitEnd without lines 184-185: the free slots are not zeroed.
AdmitEndKeepsFree(s) ==
    /\ pc[s] = "admit"
    /\ ~(w[s] > 0 /\ tuples_loaded[s] < w[s] /\ input_queue(s) # <<>>)
    /\ tuples_loaded' = [tuples_loaded EXCEPT ![s] = 0]
    /\ pc' = [pc EXCEPT ![s] = IF is_empty(queue[s]) THEN "check_event" ELSE "probe"]
    /\ UNCHANGED <<shared, prodVars, relVars, w, hash_table, queue, oldest_key,
                   disk_buffer, di, cntVars, sinkVars, main_pc, histVars>>

\* AdmitEnd without the window-empty test of line 187.
AdmitEndAlwaysProbes(s) ==
    /\ pc[s] = "admit"
    /\ ~(w[s] > 0 /\ tuples_loaded[s] < w[s] /\ input_queue(s) # <<>>)
    /\ w' = [w EXCEPT ![s] = IF w[s] > 0 /\ tuples_loaded[s] > 0 THEN 0 ELSE @]
    /\ tuples_loaded' = [tuples_loaded EXCEPT ![s] = 0]
    /\ pc' = [pc EXCEPT ![s] = "probe"]
    /\ UNCHANGED <<shared, prodVars, relVars, hash_table, queue, oldest_key,
                   disk_buffer, di, cntVars, sinkVars, main_pc, histVars>>

\* The admission loop ends (173), free slots are zeroed after a load
\* (184-185), and the window-empty test (187) picks the next step.
AdmitEnd(s) ==
    /\ pc[s] = "admit"
    /\ ~(w[s] > 0 /\ tuples_loaded[s] < w[s] /\ input_queue(s) # <<>>)
    /\ w' = [w EXCEPT ![s] = IF w[s] > 0 /\ tuples_loaded[s] > 0 THEN 0 ELSE @]
    /\ tuples_loaded' = [tuples_loaded EXCEPT ![s] = 0]
    /\ pc' = [pc EXCEPT ![s] = IF is_empty(queue[s]) THEN "check_event" ELSE "probe"]
    /\ UNCHANGED <<shared, prodVars, relVars, hash_table, queue, oldest_key,
                   disk_buffer, di, cntVars, sinkVars, main_pc, histVars>>

\* CheckEvent that does not test the event.
CheckEventIgnoresEvent(s) ==
    /\ pc[s] = "check_event"
    /\ pc' = [pc EXCEPT ![s] = "check_input"]
    /\ UNCHANGED <<shared, prodVars, relVars, winVars, cntVars, sinkVars, main_pc,
                   histVars>>

\* upstream_finished_event.is_set() (188, left operand); when it is not
\* set the stage sleeps and starts the next iteration (192-193).
CheckEvent(s) ==
    /\ pc[s] = "check_event"
    /\ pc' = [pc EXCEPT ![s] = IF upstream_finished(s) THEN "check_input" ELSE "admit"]
    /\ UNCHANGED <<shared, prodVars, relVars, winVars, cntVars, sinkVars, main_pc,
                   histVars>>

\* CheckInput with the emptiness test inverted.
CheckInputInverted(s) ==
    /\ pc[s] = "check_input"
    /\ pc' = [pc EXCEPT ![s] = IF input_queue(s) # <<>> THEN "finish" ELSE "admit"]
    /\ UNCHANGED <<shared, prodVars, relVars, winVars, cntVars, sinkVars, main_pc,
                   histVars>>

\* input_queue.empty() (188, right operand): break (190) or continue (193).
CheckInput(s) ==
    /\ pc[s] = "check_input"
    /\ pc' = [pc EXCEPT ![s] = IF input_queue(s) = <<>> THEN "finish" ELSE "admit"]
    /\ UNCHANGED <<shared, prodVars, relVars, winVars, cntVars, sinkVars, main_pc,
                   histVars>>

SetWin(s, st) ==
    /\ hash_table' = [hash_table EXCEPT ![s] = st.h]
    /\ queue' = [queue EXCEPT ![s] = st.q]
    /\ w' = [w EXCEPT ![s] = st.w]
    /\ removed' = [removed EXCEPT ![s] = st.rem]

\* ProbeError without the handler of 218-225: the exception of the fetch
\* ends the thread.
ProbeErrorEscapes(s) ==
    /\ pc[s] = "probe"
    /\ peek_front(queue[s]) # None
    /\ fetch_faults > 0
    /\ fetch_faults' = fetch_faults - 1
    /\ oldest_key' = [oldest_key EXCEPT ![s] = peek_front(queue[s])]
    /\ pc' = [pc EXCEPT ![s] = "failed"]
    /\ UNCHANGED <<shared, prodVars, relVars, w, tuples_loaded, hash_table, queue,
                   disk_buffer, di, cntVars, sinkVars, main_pc, removed, forwarded>>

\* oldest_key = self.queue.peek_front() (195), then the fetch raises
\* (218-225): the oldest key's entries are flushed.
ProbeError(s) ==
    /\ pc[s] = "probe"
    /\ peek_front(queue[s]) # None
    /\ fetch_faults > 0
    /\ fetch_faults' = fetch_faults - 1
    /\ oldest_key' = [oldest_key EXCEPT ![s] = peek_front(queue[s])]
    /\ SetWin(s, Flush(WinState(s), peek_front(queue[s]), "error"))
    /\ pc' = [pc EXCEPT ![s] = "admit"]
    /\ UNCHANGED <<shared, prodVars, relVars, tuples_loaded, disk_buffer, di, cntVars,
                   sinkVars, main_pc, forwarded>>

\* The fetch returns no row (209-216): the oldest key's entries are flushed.
ProbeEmpty(s) ==
    /\ pc[s] = "probe"
    /\ peek_front(queue[s]) # None
    /\ partition_loader_func(s, peek_front(queue[s]), VP) = <<>>
    /\ oldest_key' = [oldest_key EXCEPT ![s] = peek_front(queue[s])]
    /\ disk_buffer' = [disk_buffer EXCEPT ![s] = <<>>]
    /\ SetWin(s, Flush(WinState(s), peek_front(queue[s]), "empty"))
    /\ pc' = [pc EXCEPT ![s] = "admit"]
    /\ UNCHANGED <<shared, prodVars, relVars, tuples_loaded, di, cntVars, sinkVars,
                   main_pc, forwarded, fetch_faults>>

RECURSIVE SkipUnmatched(_, _, _)
\* The outer loop (227-250) from disk record i up to the next record whose
\* bucket holds a pair: a record whose key is not in the dict is passed
\* over (230), an empty bucket is deleted (231-250).
SkipUnmatched(h, buf, i) ==
    IF i > Len(buf) THEN [h |-> h, di |-> i]
    ELSE IF buf[i].key \in DOMAIN h /\ h[buf[i].key] # <<>> THEN [h |-> h, di |-> i]
    ELSE SkipUnmatched(IF buf[i].key \in DOMAIN h THEN HDel(h, buf[i].key) ELSE h,
                       buf, i + 1)

\* The match loop stands at disk record nxt.di of buf with dict nxt.h, or
\* has ended: the report (252-271) changes nothing and the stage iterates.
EnterMatch(s, nxt, buf) ==
    /\ hash_table' = [hash_table EXCEPT ![s] = nxt.h]
    /\ di' = [di EXCEPT ![s] = IF nxt.di > Len(buf) THEN 1 ELSE nxt.di]
    /\ pc' = [pc EXCEPT ![s] = IF nxt.di > Len(buf) THEN "admit" ELSE "match"]

\* The fetch returns rows (202-206) and the match loop runs up to its first
\* matching disk record.
ProbeFetched(s) ==
    /\ pc[s] = "probe"
    /\ peek_front(queue[s]) # None
    /\ partition_loader_func(s, peek_front(queue[s]), VP) # <<>>
    /\ oldest_key' = [oldest_key EXCEPT ![s] = peek_front(queue[s])]
    /\ LET buf == partition_loader_func(s, peek_front(queue[s]), VP) IN
        /\ disk_buffer' = [disk_buffer EXCEPT ![s] = buf]
        /\ EnterMatch(s, SkipUnmatched(hash_table[s], buf, 1), buf)
    /\ UNCHANGED <<shared, prodVars, relVars, w, tuples_loaded, queue,
                   cntVars, sinkVars, main_pc, histVars>>

\* The join keys are never None (Customer_ID is an int, Product_ID a str:
\* hybridjoin.py:81-82), so this branch is not part of Stage.
\* peek_front() returned None although the FIFO is not empty (197-199).
ProbeNone(s) ==
    /\ pc[s] = "probe"
    /\ peek_front(queue[s]) = None
    /\ oldest_key' = [oldest_key EXCEPT ![s] = None]
    /\ w' = [w EXCEPT ![s] = HS - QLen(queue[s])]
    /\ pc' = [pc EXCEPT ![s] = "admit"]
    /\ UNCHANGED <<shared, prodVars, relVars, tuples_loaded, hash_table, queue,
                   disk_buffer, di, cntVars, sinkVars, main_pc, histVars>>

\* disk_record when the rows are first collected by key, a later row
\* replacing an earlier one of the same key.
disk_record_last(s) ==
    LET same == {i \in 1..Len(disk_buffer[s]) :
                    disk_buffer[s][i].key = disk_buffer[s][di[s]].key}
    IN disk_buffer[s][CHOOSE i \in same : \A j \in same : j <= i]

disk_record(s) == disk_buffer[s][di[s]]

\* One pass of the inner loop (233-247): the next pair of the bucket of the
\* current disk record is removed, merged and forwarded; the loops then run
\* up to the next pair to match.  output_queue.put blocks while
\* intermediate_queue is full.
MatchTuple(s) ==
    /\ pc[s] = "match"
    /\ LET r == disk_record(s)
           e == Head(hash_table[s][r.key])
           enriched_tuple == Enrich(s, e.t, r)
           st == RemoveEntry(WinState(s), r.key, e, "match")
       IN /\ queue' = [queue EXCEPT ![s] = st.q]
          /\ w' = [w EXCEPT ![s] = st.w]
          /\ removed' = [removed EXCEPT ![s] = st.rem]
          /\ EnterMatch(s, SkipUnmatched(st.h, disk_buffer[s], di[s]), disk_buffer[s])
          /\ forwarded' = [forwarded EXCEPT ![s] = Append(@, enriched_tuple)]
          /\ IF is_final_stage(s)
             THEN /\ WriteFactToBatch(enriched_tuple)
                  /\ UNCHANGED <<intermediate_queue, total_output>>
             ELSE /\ Len(intermediate_queue) < INTERMEDIATE_QUEUE_SIZE
                  /\ intermediate_queue' = Append(intermediate_queue, enriched_tuple)
                  /\ total_output' = [total_output EXCEPT ![s] = @ + 1]
                  /\ UNCHANGED sinkVars
    /\ total_joined' = [total_joined EXCEPT ![s] = @ + 1]
    /\ UNCHANGED <<stream_buffer, producer_finished, consumer1_finished, prodVars,
                   relVars, tuples_loaded, oldest_key, disk_buffer,
                   total_processed, main_pc, fetch_faults>>

\* After the loop (273-295): the final stage stores what is left of the
\* batch, then the summary divides by total_processed.  An exception ends
\* the thread (297-301).
Finish(s) ==
    /\ pc[s] = "finish"
    /\ IF is_final_stage(s) /\ fact_batch # <<>>
       THEN \/ /\ Fact_Sales' = Fact_Sales \o fact_batch
               /\ total_loaded' = total_loaded + Len(fact_batch)
               /\ fact_batch' = <<>>
               /\ pc' = [pc EXCEPT ![s] = IF total_processed[s] = 0 THEN "failed" ELSE "done"]
               /\ UNCHANGED <<dropped_records, sink_faults>>
            \/ /\ sink_faults > 0
               /\ sink_faults' = sink_faults - 1
               /\ pc' = [pc EXCEPT ![s] = "failed"]
               /\ UNCHANGED <<fact_batch, total_loaded, dropped_records, Fact_Sales>>
       ELSE /\ pc' = [pc EXCEPT ![s] = IF total_processed[s] = 0 THEN "failed" ELSE "done"]
            /\ UNCHANGED sinkVars
    /\ UNCHANGED <<shared, prodVars, relVars, winVars, cntVars, main_pc, histVars>>

Stage(s) ==
    \/ Admit(s)
    \/ AdmitEnd(s)
    \/ CheckEvent(s)
    \/ CheckInput(s)
    \/ ProbeError(s)
    \/ ProbeEmpty(s)
    \/ ProbeFetched(s)
    \/ MatchTuple(s)
    \/ Finish(s)

Next ==
    \/ ProducerPut
    \/ ProducerFinish
    \/ \E s \in Stages : Stage(s)
    \/ MainSetFinished
    \/ MainJoinConsumer2
    \/ MainReport

Spec == Init /\ [][Next]_vars

\* Every thread that can take a step eventually takes one (the threads are
\* started at 439-441 and scheduled by the operating system).
Fairness ==
    /\ WF_vars(ProducerPut \/ ProducerFinish)
    /\ \A s \in Stages : WF_vars(Stage(s))
    /\ WF_vars(MainSetFinished \/ MainJoinConsumer2 \/ MainReport)

\* The runs whose input is shorter than MaxStream.
InitFair == Started(MaxFetchErrors, 0) /\ Len(df) < MaxStream

SpecFair == InitFair /\ [][Next]_vars /\ Fairness

\* The runs on inputs whose records all have product 1, over master tables
\* [1] and [1, 2], fairly scheduled.
LiveInputs ==
    {[i \in 1..Len(ks) |-> StreamTuple(i, ks[i], 1)] : ks \in SeqsUpTo(Keys, MaxStream)}

LiveRelations == {<<1>>, <<1, 2>>}

InitLive == StartedWith(HS, LiveInputs, LiveRelations, MaxFetchErrors, 0)

SpecLive == InitLive /\ [][Next]_vars /\ Fairness

\* The runs in which insert_fact_sales_batch may raise as well.
InitSink == Started(MaxFetchErrors, MaxSinkFailures)

SpecSink == InitSink /\ [][Next]_vars

\* The program with HS = 3 (hybridjoin.py:24) and VP = 2: inputs of three
\* records over three customer keys, master tables of two rows with
\* different keys.
ScenarioHS == 3

ScenarioKeys == 1..3

ScenarioInputs ==
    {[i \in 1..3 |-> StreamTuple(i, ks[i], 1)] : ks \in [1..3 -> ScenarioKeys]}

ScenarioRelations == {<<1, 2>>, <<1, 3>>, <<2, 3>>}

InitScenario ==
    StartedWith(ScenarioHS, ScenarioInputs, ScenarioRelations, MaxFetchErrors, 0)

SpecScenario == InitScenario /\ [][Next]_vars


\* ---- what the claims speak of ----
LinkedSet(q) == {Linked(q)[i] : i \in 1..Len(Linked(q))}

\* The (key, position) places of the pairs held by the dict h.
Pairs(h) == UNION {{<<k, i>> : i \in 1..Len(h[k])} : k \in DOMAIN h}

Hows(s) == {removed[s][i].how : i \in 1..Len(removed[s])}

HasDuplicate(rel, k) == Cardinality({i \in 1..Len(rel) : rel[i] = k}) >= 2

FirstRow(rel, k) == CHOOSE i \in 1..Len(rel) : rel[i] = k /\ \A j \in 1..(i - 1) : rel[j] # k

LeftLoop(s) == pc[s] \in {"finish", "done", "failed"}

\* C1: in every reachable state, the FIFO window of each stage holds at
\* most HS entries (by its size field and by the nodes linked from head).
C1_WindowBounded ==
    \A s \in Stages : QLen(queue[s]) <= HS /\ Len(Linked(queue[s])) <= HS

\* C1 witness: a window is full while its input queue still holds a tuple.
C1_Witness ==
    \E s \in Stages : QLen(queue[s]) = HS /\ input_queue(s) # <<>> /\ pc[s] = "admit"

\* C2: outside the admission loop (at the start of an iteration and after
\* every probe, match or flush step) free slots plus window entries equal
\* the capacity: w + len(queue) = HS.
C2_FreePlusWindowIsCapacity ==
    \A s \in Stages :
        (pc[s] # "admit" \/ tuples_loaded[s] = 0) => w[s] + QLen(queue[s]) = HS

\* C3: the key index and the FIFO agree: len(queue) is the number of pairs
\* in the buckets, every linked node is referenced by exactly one pair,
\* every pair references a linked node, and the node's key is the bucket's.
C3_IndexMatchesFifo ==
    \A s \in Stages :
        LET h == hash_table[s]
            q == queue[s]
        IN /\ QLen(q) = SumLen(h, DOMAIN h)
           /\ QLen(q) = Len(Linked(q))
           /\ \A n \in LinkedSet(q) :
                  Cardinality({p \in Pairs(h) : h[p[1]][p[2]].node = n}) = 1
           /\ \A p \in Pairs(h) :
                  /\ h[p[1]][p[2]].node \in LinkedSet(q)
                  /\ q.nodes[h[p[1]][p[2]].node].key = p[1]

\* C3 witness: a stage has matched an entry and flushed one after a fetch
\* error, and still holds an entry.
C3_Witness ==
    \E s \in Stages :
        /\ {"match", "error"} \subseteq Hows(s)
        /\ QLen(queue[s]) >= 1
        /\ pc[s] = "admit"

\* C4: an admitted tuple is removed at most once and forwarded at most
\* once, and a removed entry is neither linked in the FIFO nor held by a
\* bucket, so that no later partition row can match it.
C4_RemovedOnce ==
    \A s \in Stages :
        /\ \A i, j \in 1..Len(removed[s]) :
               i # j => removed[s][i].node # removed[s][j].node
        /\ \A i, j \in 1..Len(forwarded[s]) :
               i # j => forwarded[s][i].Order_ID # forwarded[s][j].Order_ID
        /\ \A i \in 1..Len(removed[s]) :
               /\ removed[s][i].node \notin LinkedSet(queue[s])
               /\ \A p \in Pairs(hash_table[s]) :
                      hash_table[s][p[1]][p[2]].node # removed[s][i].node

\* C4 witness: an entry was matched by the first of two partition rows of
\* its key, and the match loop has passed the second row.
C4_Witness ==
    \E s \in Stages : \E i \in 1..Len(removed[s]) :
        /\ removed[s][i].how = "match"
        /\ HasDuplicate(Relation(s), removed[s][i].key)
        /\ pc[s] = "admit"

\* C5: of several partition rows with one join key only the first matches:
\* every enriched tuple carries the fields of the first row of its key.
C5_FirstRowWins ==
    \A s \in Stages : \A i \in 1..Len(forwarded[s]) :
        LET e == forwarded[s][i]
            row == IF s = 1 THEN e.CustRow ELSE e.ProdRow
        IN /\ row \in 1..Len(Relation(s))
           /\ row = FirstRow(Relation(s), JoinKey(s, e))

\* C5 witness: two entries of a key were enriched while the partition held
\* two rows of that key.
C5_Witness ==
    \E s \in Stages : \E i, j \in 1..Len(forwarded[s]) :
        /\ i # j
        /\ JoinKey(s, forwarded[s][i]) = JoinKey(s, forwarded[s][j])
        /\ HasDuplicate(Relation(s), JoinKey(s, forwarded[s][i]))
        /\ pc[s] = "admit"

\* The node removed by the step, when the step is one match removal.
MatchRemoval(s) ==
    /\ Len(removed'[s]) = Len(removed[s]) + 1
    /\ removed'[s][Len(removed'[s])].how = "match"

\* C6: a probe whose partition holds a row of key k removes every window
\* entry of key k; each removal produces exactly one enriched tuple, the
\* entry's stream tuple merged with that row, and adds one to total_joined;
\* nothing else produces an enriched tuple or changes total_joined.
C6_FanOut ==
    [][\A s \in Stages :
        /\ MatchRemoval(s) =>
             LET r == removed'[s][Len(removed'[s])]
                 h == hash_table[s]
                 row == [key |-> r.key, row |-> FirstRow(Relation(s), r.key)]
             IN /\ QLen(queue'[s]) = QLen(queue[s]) - 1
                /\ total_joined'[s] = total_joined[s] + 1
                /\ Len(forwarded'[s]) = Len(forwarded[s]) + 1
                /\ \E p \in Pairs(h) :
                       /\ h[p[1]][p[2]].node = r.node
                       /\ forwarded'[s][Len(forwarded'[s])] = Enrich(s, h[p[1]][p[2]].t, row)
                /\ s = 1 => intermediate_queue' =
                                Append(intermediate_queue, forwarded'[s][Len(forwarded'[s])])
        /\ (total_joined'[s] # total_joined[s] \/ forwarded'[s] # forwarded[s])
               => MatchRemoval(s)
        /\ (pc[s] \in {"probe", "match"} /\ pc'[s] = "admit" /\ fetch_faults' = fetch_faults)
               => \A i \in 1..Len(disk_buffer'[s]) : \A n \in LinkedSet(queue'[s]) :
                      queue'[s].nodes[n].key # disk_buffer'[s][i].key
      ]_vars

\* C6 witness: one probe has matched two entries of one key (both removals
\* happened since the last admission, which had zeroed w).
C6_Witness ==
    \E s \in Stages :
        /\ pc[s] = "admit"
        /\ tuples_loaded[s] = 0
        /\ w[s] = 2
        /\ Len(removed[s]) >= 2
        /\ LET n == Len(removed[s]) IN
               /\ removed[s][n].how = "match"
               /\ removed[s][n - 1].how = "match"
               /\ removed[s][n].key = removed[s][n - 1].key

\* C7: entries of one key leave the window in the order they were admitted
\* (node ids grow with admission), no entry stays behind a later-admitted
\* entry of its key that has left, and stage 1 puts the enriched tuples of
\* one key on intermediate_queue in arrival order.
C7_SameKeyOrder ==
    /\ \A s \in Stages :
        /\ \A i, j \in 1..Len(removed[s]) :
               (i < j /\ removed[s][i].key = removed[s][j].key)
                   => removed[s][i].node < removed[s][j].node
        /\ \A i \in 1..Len(removed[s]) : \A n \in LinkedSet(queue[s]) :
               queue[s].nodes[n].key = removed[s][i].key => removed[s][i].node < n
    /\ \A i, j \in 1..Len(forwarded[1]) :
           (i < j /\ forwarded[1][i].Customer_ID = forwarded[1][j].Customer_ID)
               => forwarded[1][i].Order_ID < forwarded[1][j].Order_ID
    /\ \A i, j \in 1..Len(intermediate_queue) :
           (i < j /\ intermediate_queue[i].Customer_ID = intermediate_queue[j].Customer_ID)
               => intermediate_queue[i].Order_ID < intermediate_queue[j].Order_ID

\* C7 witness: stage 1 has forwarded two tuples of one key, and stage 2 has
\* removed two entries of one key.
C7_Witness ==
    /\ \E i, j \in 1..Len(forwarded[1]) :
           i < j /\ forwarded[1][i].Customer_ID = forwarded[1][j].Customer_ID
    /\ \E i, j \in 1..Len(removed[2]) :
           i < j /\ removed[2][i].key = removed[2][j].key

Quiescent(s) == upstream_finished(s) /\ input_queue(s) = <<>> /\ is_empty(queue[s])

\* C8: once the upstream event is set and the input queue and the window
\* are empty, the stage goes straight from the admission test through the
\* two termination tests out of its loop: it admits nothing, fetches
\* nothing, does not poll again, and under fair scheduling it leaves.
C8_TerminatesWhenQuiescent ==
    /\ [][\A s \in Stages : (Quiescent(s) /\ ~LeftLoop(s)) =>
            /\ Quiescent(s)'
            /\ total_processed'[s] = total_processed[s]
            /\ disk_buffer'[s] = disk_buffer[s]
            /\ oldest_key'[s] = oldest_key[s]
            /\ pc'[s] # pc[s] =>
                   <<pc[s], pc'[s]>> \in {<<"admit", "check_event">>,
                                          <<"check_event", "check_input">>,
                                          <<"check_input", "finish">>}
        ]_vars
    /\ \A s \in Stages : Quiescent(s) ~> LeftLoop(s)

\* C8 witness: a stage that has processed tuples stands at the start of an
\* iteration with the event set, the input queue empty and the window empty.
C8_Witness ==
    \E s \in Stages :
        /\ Quiescent(s)
        /\ pc[s] = "admit"
        /\ total_processed[s] >= 2

\* C9: a stage is out of its main loop only with its upstream event set,
\* its input queue empty and its window empty; stage 1 has then admitted
\* every input record and stage 2 every tuple stage 1 has forwarded, and
\* stage 1 has ended.
C9_LeavesOnlyWhenExhausted ==
    \A s \in Stages : LeftLoop(s) =>
        /\ upstream_finished(s)
        /\ input_queue(s) = <<>>
        /\ is_empty(queue[s])
        /\ Linked(queue[s]) = <<>>
        /\ Pairs(hash_table[s]) = {}
        /\ s = 1 => total_streamed = Len(df) /\ total_processed[1] = Len(df)
        /\ s = 2 => Terminated(1) /\ total_processed[2] = total_output[1]

\* C9 witness: both stages have left their loops and stage 2 has admitted
\* two tuples.
C9_Witness ==
    /\ LeftLoop(1)
    /\ LeftLoop(2)
    /\ total_processed[2] >= 2

\* C10: every completed probe for oldest key k leaves no entry of key k in
\* the window (matched when the relation holds a row of key k, flushed when
\* it holds none, also when the fetched partition is not empty).
C10_ProbeClearsOldestKey ==
    \A s \in Stages :
        (pc[s] = "admit" /\ tuples_loaded[s] = 0 /\ oldest_key[s] # None) =>
            \A n \in LinkedSet(queue[s]) : queue[s].nodes[n].key # oldest_key[s]

\* The linked nodes of q whose key is not k, front to back.
RECURSIVE OtherNodes(_, _, _)
OtherNodes(q, nodes, k) ==
    IF nodes = <<>> THEN <<>>
    ELSE IF q.nodes[Head(nodes)].key = k THEN OtherNodes(q, Tail(nodes), k)
    ELSE <<Head(nodes)>> \o OtherNodes(q, Tail(nodes), k)

KeyCount(q, k) == Cardinality({n \in LinkedSet(q) : q.nodes[n].key = k})

\* The step is stage s's handling of a fetch that raised.
FetchErrorStep(s) ==
    pc[s] = "probe" /\ pc'[s] # "probe" /\ fetch_faults' # fetch_faults

\* The step is stage s's flush after a fetch that raised or returned no row.
FlushStep(s) ==
    /\ pc[s] = "probe"
    /\ pc'[s] # "probe"
    /\ \/ fetch_faults' # fetch_faults
       \/ partition_loader_func(s, peek_front(queue[s]), VP) = <<>>

\* C11: when the fetch for the oldest key X raises, every window entry of
\* key X leaves the FIFO and the index, none is forwarded or counted as
\* joined, w grows by exactly the number of entries removed, and the stage
\* goes on with its next iteration (the exception does not end it).
C11_FetchErrorFlush ==
    [][\A s \in Stages : FetchErrorStep(s) =>
        LET X == peek_front(queue[s])
            n == KeyCount(queue[s], X)
        IN /\ n >= 1
           /\ KeyCount(queue'[s], X) = 0
           /\ \A p \in Pairs(hash_table'[s]) : p[1] # X
           /\ QLen(queue'[s]) = QLen(queue[s]) - n
           /\ Len(removed'[s]) = Len(removed[s]) + n
           /\ \A i \in (Len(removed[s]) + 1)..Len(removed'[s]) :
                  removed'[s][i].key = X /\ removed'[s][i].how = "error"
           /\ forwarded' = forwarded
           /\ total_joined' = total_joined
           /\ intermediate_queue' = intermediate_queue
           /\ w'[s] = w[s] + n
           /\ pc'[s] = "admit"
      ]_vars

\* C11 witness: a fetch error has flushed two entries of one key at once
\* (w was 0 after the admission of both and is 2 after the flush).
C11_Witness ==
    \E s \in Stages :
        /\ pc[s] = "admit"
        /\ tuples_loaded[s] = 0
        /\ fetch_faults < MaxFetchErrors
        /\ Len(removed[s]) >= 2
        /\ LET n == Len(removed[s]) IN
               /\ removed[s][n].how = "error"
               /\ removed[s][n - 1].how = "error"
               /\ removed[s][n].key = removed[s][n - 1].key
        /\ w[s] = 2

\* C12: a flush after a fetch error or an empty partition for oldest key k
\* changes only key k's entries: the entries of every other key stay linked
\* in the same relative order and stay in their buckets, and the output
\* queue, the batch, total_joined, total_output and total_loaded are as
\* they were.
C12_FlushFrame ==
    [][\A s \in Stages : FlushStep(s) =>
        LET k == peek_front(queue[s]) IN
           /\ Linked(queue'[s]) = OtherNodes(queue[s], Linked(queue[s]), k)
           /\ \A n \in LinkedSet(queue'[s]) : queue'[s].nodes[n].key = queue[s].nodes[n].key
           /\ \A x \in DOMAIN hash_table[s] :
                  x # k => x \in DOMAIN hash_table'[s] /\ hash_table'[s][x] = hash_table[s][x]
           /\ intermediate_queue' = intermediate_queue
           /\ fact_batch' = fact_batch
           /\ Fact_Sales' = Fact_Sales
           /\ total_joined' = total_joined
           /\ total_output' = total_output
           /\ total_loaded' = total_loaded
           /\ forwarded' = forwarded
      ]_vars

\* C12 witness: a flush has removed the oldest key's entry while an entry
\* of another key, admitted with it, is still in the window.
C12_Witness ==
    \E s \in Stages :
        /\ pc[s] = "admit"
        /\ tuples_loaded[s] = 0
        /\ Len(removed[s]) >= 1
        /\ removed[s][Len(removed[s])].how \in {"error", "empty"}
        /\ \E n \in LinkedSet(queue[s]) :
               /\ queue[s].nodes[n].key # removed[s][Len(removed[s])].key
               /\ n = removed[s][Len(removed[s])].node + 1

\* The i-th tuple stage s has admitted: stage 1 gets the input records in
\* order, stage 2 the tuples stage 1 has forwarded in order.
Admitted(s, i) == IF s = 1 THEN df[i] ELSE forwarded[1][i]

\* Stage s, with capacity 3, has admitted exactly three tuples of keys
\* [A, A, B], B # A, its last completed fetch was for A and returned two
\* rows [A, C] with C not in {A, B}, and the probe has just ended.
ScenarioProbed(s) ==
    LET q == queue[s]
        buf == disk_buffer[s]
    IN /\ pc[s] = "admit"
       /\ tuples_loaded[s] = 0
       /\ total_processed[s] = 3
       /\ Len(q.nodes) = 3
       /\ q.nodes[1].key = q.nodes[2].key
       /\ q.nodes[3].key # q.nodes[1].key
       /\ oldest_key[s] = q.nodes[1].key
       /\ Len(buf) = VP
       /\ buf[1].key = q.nodes[1].key
       /\ buf[2].key \notin {q.nodes[1].key, q.nodes[3].key}

\* C13: with capacity 3 and partition size 2, after a stage has admitted
\* keys [A, A, B] and its probe for A has fetched [A, C]: both A entries
\* have been removed and forwarded, each merged with the one A row, the B
\* entry is still in the window, nothing was produced for C, and w = 2.
C13_Scenario ==
    \A s \in Stages : ScenarioProbed(s) =>
        LET q == queue[s]
            A == q.nodes[1].key
            B == q.nodes[3].key
            C == disk_buffer[s][2].key
        IN /\ removed[s] = <<[node |-> 1, key |-> A, how |-> "match"],
                             [node |-> 2, key |-> A, how |-> "match"]>>
           /\ forwarded[s] = <<Enrich(s, Admitted(s, 1), disk_buffer[s][1]),
                               Enrich(s, Admitted(s, 2), disk_buffer[s][1])>>
           /\ total_joined[s] = 2
           /\ Linked(q) = <<3>>
           /\ QLen(q) = 1
           /\ B \in DOMAIN hash_table[s]
           /\ hash_table[s][B] = <<[t |-> Admitted(s, 3), node |-> 3]>>
           /\ Pairs(hash_table[s]) = {<<B, 1>>}
           /\ \A i \in 1..Len(forwarded[s]) : JoinKey(s, forwarded[s][i]) # C
           /\ w[s] = 2

\* C13 witness: stage 1 has just ended the probe of the scenario.
C13_Witness == ScenarioProbed(1) /\ w[1] = 2 /\ Len(forwarded[1]) = 2

\* The step is the final stage's handling of one more enriched tuple.
FinalStageWrite == Len(forwarded'[2]) = Len(forwarded[2]) + 1

\* C14: in the final stage an enriched tuple without a surrogate key for
\* its customer or its product is dropped: dropped_records grows by exactly
\* 1, the batch, the stored records and total_loaded stay as they are, and
\* the stage goes on (it does not fail).
C14_LookupMissDrops ==
    [][FinalStageWrite =>
        LET e == forwarded'[2][Len(forwarded'[2])] IN
        (e.Customer_ID \notin dim_lookups.customer \/ e.Product_ID \notin dim_lookups.product)
            => /\ dropped_records' = dropped_records + 1
               /\ fact_batch' = fact_batch
               /\ Fact_Sales' = Fact_Sales
               /\ total_loaded' = total_loaded
               /\ pc'[2] \in {"match", "admit"}
      ]_vars

\* C14 witness: the final stage has dropped a tuple for a lookup miss and
\* has appended the tuple that came after it to the batch.
C14_Witness ==
    /\ Len(forwarded[2]) >= 2
    /\ LET n == Len(forwarded[2]) IN
           /\ forwarded[2][n - 1].Product_ID \notin dim_lookups.product
           /\ forwarded[2][n].Product_ID \in dim_lookups.product
           /\ forwarded[2][n].Customer_ID \in dim_lookups.customer
           /\ fact_batch = <<forwarded[2][n].Order_ID>>
    /\ dropped_records = 1

\* The Order_IDs of the tuples of seq that have both surrogate keys, in
\* order: the records the final stage has appended to its batch.
RECURSIVE AppendedIds(_)
AppendedIds(seq) ==
    IF seq = <<>> THEN <<>>
    ELSE IF Head(seq).Customer_ID \in dim_lookups.customer
            /\ Head(seq).Product_ID \in dim_lookups.product
         THEN <<Head(seq).Order_ID>> \o AppendedIds(Tail(seq))
         ELSE AppendedIds(Tail(seq))

C16_InsertFailureFatal ==
    [][sink_faults' # sink_faults =>
          /\ pc'[2] = "failed"
          /\ dropped_records' = dropped_records
      ]_vars

\* C17: when a stage thread has ended with an exception, main does not
\* report that the process completed successfully.
C17_DeadThreadAborts ==
    (\E s \in Stages : pc[s] = "failed") => main_pc # "done"

C19_EventsSetOnce ==
    [][/\ producer_finished => producer_finished'
       /\ consumer1_finished => consumer1_finished'
       /\ producer_finished' # producer_finished =>
              /\ producer_pc = "run" /\ producer_pc' = "done"
              /\ pc' = pc /\ main_pc' = main_pc
              /\ consumer1_finished' = consumer1_finished
       /\ consumer1_finished' # consumer1_finished =>
              /\ main_pc = "join_consumer1" /\ main_pc' = "join_consumer2"
              /\ pc' = pc /\ producer_pc' = producer_pc
              /\ producer_finished' = producer_finished
       /\ \A s \in Stages :
              (pc[s] = "check_event" /\ pc'[s] # pc[s] /\ upstream_finished(s))
                  => pc'[s] = "check_input"
      ]_vars

\* C19 witness: both events are set and stage 2 has read its event as set.
C19_Witness ==
    /\ producer_finished
    /\ consumer1_finished
    /\ pc[2] = "check_input"
    /\ total_processed[2] >= 1

\* C20: in every reachable state, also when insert_fact_sales_batch has
\* raised, the tuples held in both windows, both disk buffers, the two
\* queues and the batch are at most TOTAL_MEMORY_TUPLES, each of them within
\* its own capacity.
C20_MemoryBounded ==
    /\ QLen(queue[1]) + QLen(queue[2]) + Len(disk_buffer[1]) + Len(disk_buffer[2])
         + Len(stream_buffer) + Len(intermediate_queue) + Len(fact_batch)
           <= TOTAL_MEMORY_TUPLES
    /\ \A s \in Stages : QLen(queue[s]) <= HS /\ Len(disk_buffer[s]) <= VP
    /\ Len(stream_buffer) <= STREAM_BUFFER_SIZE
    /\ Len(intermediate_queue) <= INTERMEDIATE_QUEUE_SIZE
    /\ Len(fact_batch) <= BATCH_INSERT_SIZE

\* The nodes stage s has removed so far.
RemovedNodes(s) == {removed[s][i].node : i \in 1..Len(removed[s])}

\* The tuples put on stage s's input queue so far, in arrival order.
Arrived(s) == IF s = 1 THEN SubSeq(df, 1, total_streamed) ELSE forwarded[1]

\* C21: a stage admits tuples in the order they were put on its input
\* queue (the n-th node it creates holds the n-th tuple put, the queue
\* holds the tuples not yet admitted, in order); the window's FIFO order is
\* a subsequence of the arrival order, and its oldest entry is the
\* earliest-arrived tuple that has not been matched or flushed.
C21_AdmissionOrder ==
    \A s \in Stages :
        LET q == queue[s]
            h == hash_table[s]
            l == Linked(q)
        IN /\ Len(q.nodes) = total_processed[s]
           /\ Len(Arrived(s)) = total_processed[s] + Len(input_queue(s))
           /\ \A i \in 1..Len(input_queue(s)) :
                  input_queue(s)[i] = Arrived(s)[total_processed[s] + i]
           /\ \A n \in 1..Len(q.nodes) : q.nodes[n].key = JoinKey(s, Arrived(s)[n])
           /\ \A p \in Pairs(h) : h[p[1]][p[2]].t = Arrived(s)[h[p[1]][p[2]].node]
           /\ \A i, j \in 1..Len(l) : i < j => l[i] < l[j]
           /\ LinkedSet(q) = (1..Len(q.nodes)) \ RemovedNodes(s)
           /\ q.head # None =>
                  /\ \A n \in (1..Len(q.nodes)) \ RemovedNodes(s) : q.head <= n
                  /\ peek_front(q) = JoinKey(s, Arrived(s)[q.head])

\* C21 witness: a window holds the second and the third tuple that
\* arrived, in that order, the first having been removed.
C21_Witness ==
    \E s \in Stages :
        /\ Linked(queue[s]) = <<2, 3>>
        /\ RemovedNodes(s) = {1}

\* The step is a call of the partition loader by stage s (it returns rows,
\* returns none, or raises).
FetchStep(s) == pc[s] = "probe" /\ pc'[s] # pc[s]

\* C22: a stage calls the partition loader only with a non-empty window,
\* with the key of the FIFO head, which has a pending entry, and with VP as
\* the most rows: what it gets is the first VP rows from that key on.
C22_FetchForHeadKey ==
    /\ [](\A s \in Stages : pc[s] = "probe" => ~is_empty(queue[s]) /\ queue[s].head # None)
    /\ [][\A s \in Stages : FetchStep(s) =>
            LET q == queue[s]
                k == q.nodes[q.head].key
            IN /\ QLen(q) >= 1
               /\ oldest_key'[s] = k
               /\ k \in DOMAIN hash_table[s]
               /\ \E i \in 1..Len(hash_table[s][k]) : hash_table[s][k][i].node = q.head
               /\ fetch_faults' = fetch_faults =>
                      /\ disk_buffer'[s] = Limit(RowsFrom(Relation(s), 1, k), VP)
                      /\ Len(disk_buffer'[s]) <= VP
                      /\ \A i \in 1..Len(disk_buffer'[s]) : disk_buffer'[s][i].key >= k
         ]_vars

\* C22 witness: a stage has fetched for the key of its second tuple, which
\* was the FIFO head after the first had been removed, and got VP rows.
C22_Witness ==
    \E s \in Stages :
        /\ total_processed[s] >= 2
        /\ 1 \in RemovedNodes(s)
        /\ 2 \notin RemovedNodes(s)
        /\ oldest_key[s] = queue[s].nodes[2].key
        /\ oldest_key[s] # queue[s].nodes[1].key
        /\ pc[s] = "match"
        /\ Len(disk_buffer[s]) = VP

\* Stage s stands at the start of a loop iteration (line 167).
IterationBoundary(s) == pc[s] = "admit" /\ tuples_loaded[s] = 0

\* C23: at every loop-iteration boundary no key of hash_table maps to an
\* empty list (the bucket of a key goes with the key's last entry, whether
\* that was matched or flushed).
C23_NoEmptyBucket ==
    \A s \in Stages : IterationBoundary(s) =>
        \A k \in DOMAIN hash_table[s] : hash_table[s][k] # <<>>

\* C24: consumer1_finished is set only when the producer thread and the
\* stage-1 thread have ended, so producer_finished is set and every tuple
\* stage 1 forwards has been put on intermediate_queue: whatever stage 2
\* has not admitted is on the queue when it sees the event.
C24_CompletionInOrder ==
    consumer1_finished =>
        /\ producer_pc = "done"
        /\ producer_finished
        /\ Terminated(1)
        /\ main_pc # "join_consumer1"
        /\ total_output[1] = Len(forwarded[1])
        /\ Len(forwarded[1]) = total_processed[2] + Len(intermediate_queue)

\* C24 witness: the event is set, stage 1 has forwarded two tuples, and
\* stage 2 has not yet admitted the last of them.
C24_Witness ==
    /\ consumer1_finished
    /\ total_output[1] = 2
    /\ intermediate_queue # <<>>
    /\ ~LeftLoop(2)

\* C25: a stage that leaves its loop having admitted no tuple ends
\* normally, without an exception.
C25_ZeroTuplesEndsNormally ==
    \A s \in Stages : (LeftLoop(s) /\ total_processed[s] = 0) => pc[s] # "failed"

\* self.w + len(self.queue), an admission loop in progress counted as not
\* yet begun (the tuples it has loaded so far taken off again).
FreePlusWindow(s) ==
    IF pc[s] = "admit" /\ tuples_loaded[s] > 0
    THEN w[s] + QLen(queue[s]) - tuples_loaded[s]
    ELSE w[s] + QLen(queue[s])

\* The number of entries stage s has flushed (removed without a match).
Flushed(s) == Cardinality({i \in 1..Len(removed[s]) : removed[s][i].how # "match"})

C27_StageConservation ==
    /\ \A s \in Stages :
        /\ IterationBoundary(s) =>
               total_processed[s] = total_joined[s] + Flushed(s) + QLen(queue[s])
        /\ LeftLoop(s) => total_processed[s] = total_joined[s] + Flushed(s)
        /\ total_joined[s] = Len(forwarded[s])
    /\ total_output[1] = total_joined[1]
    /\ total_output[1] = total_processed[2] + Len(intermediate_queue)

\* C27 witness: a stage has ended after joining one entry, flushing one on
\* an empty partition and one on a fetch error.
C27_Witness ==
    \E s \in Stages :
        /\ Terminated(s)
        /\ total_joined[s] = 1
        /\ Flushed(s) = 2
        /\ {"error", "empty"} \subseteq Hows(s)

\* The Order_IDs of the tuples the final stage has joined and found
\* without a surrogate key.
MissedIds ==
    {forwarded[2][i].Order_ID : i \in {j \in 1..Len(forwarded[2]) :
        \/ forwarded[2][j].Customer_ID \notin dim_lookups.customer
        \/ forwarded[2][j].Product_ID \notin dim_lookups.product}}

\* C28: with a sink that does not fail, after every call of
\* _write_fact_to_batch total_joined = total_loaded + dropped_records +
\* len(batch) in the final stage, when the stage has ended total_joined =
\* total_loaded + dropped_records, and no joined tuple is both counted as
\* dropped and stored.
C28_FinalStageConservation ==
    /\ total_joined[2] = total_loaded + dropped_records + Len(fact_batch)
    /\ Terminated(2) => total_joined[2] = total_loaded + dropped_records
    /\ dropped_records = Cardinality(MissedIds)
    /\ total_loaded = Len(Fact_Sales)
    /\ \A i \in 1..Len(Fact_Sales) : Fact_Sales[i] \notin MissedIds
    /\ \A i \in 1..Len(fact_batch) : fact_batch[i] \notin MissedIds

\* C28 witness: the final stage has ended with one tuple dropped and two
\* stored.
C28_Witness ==
    /\ Terminated(2)
    /\ dropped_records = 1
    /\ total_loaded = 2
    /\ total_joined[2] = 3

\* ---- DoublyLinkedList on its own (doubly_linked_list.py) ----
\* Any sequence of append calls and of remove calls on nodes that are in
\* the list, on the FIFO of stage 1; removed records the removed nodes.
CallAppend(key) ==
    /\ Len(queue[1].nodes) < MaxNodes
    /\ queue' = [queue EXCEPT ![1] = DLLAppend(@, key)]
    /\ UNCHANGED <<shared, prodVars, relVars, pc, w, tuples_loaded, hash_table,
                   oldest_key, disk_buffer, di, cntVars, sinkVars, main_pc, histVars>>

CallRemove(n) ==
    /\ n \in LinkedSet(queue[1])
    /\ queue' = [queue EXCEPT ![1] = DLLRemove(@, n)]
    /\ removed' = [removed EXCEPT ![1] =
           Append(@, [node |-> n, key |-> queue[1].nodes[n].key, how |-> "remove"])]
    /\ UNCHANGED <<shared, prodVars, relVars, pc, w, tuples_loaded, hash_table,
                   oldest_key, disk_buffer, di, cntVars, sinkVars, main_pc,
                   forwarded, fetch_faults>>

InitList == StartedWith(HS, {<<>>}, {<<>>}, 0, 0)

NextList ==
    \/ \E key \in Keys : CallAppend(key)
    \/ \E n \in 1..MaxNodes : CallRemove(n)

SpecList == InitList /\ [][NextList]_vars

RECURSIVE WalkBack(_, _, _)
\* The nodes reached from node n by following prev, at most fuel of them.
WalkBack(q, n, fuel) ==
    IF n = None \/ fuel = 0 THEN <<>>
    ELSE <<n>> \o WalkBack(q, q.nodes[n].prev, fuel - 1)

Reverse(seq) == [i \in 1..Len(seq) |-> seq[Len(seq) + 1 - i]]

\* C29: after any appends and removes of nodes in the list, size is the
\* number of nodes reached from head, the walk back from tail is the walk
\* from head reversed, head.prev and tail.next are None, the nodes left are
\* the appended nodes not removed, in append order, peek_front is the key
\* of the earliest-appended of them, and is_empty() holds exactly when head
\* and tail are None.
C29_ListInvariants ==
    \A s \in Stages :
        LET q == queue[s]
            l == Linked(q)
        IN /\ q.size = Len(l)
           /\ WalkBack(q, q.tail, Len(q.nodes) + 1) = Reverse(l)
           /\ q.head # None => q.nodes[q.head].prev = None
           /\ q.tail # None => q.nodes[q.tail].next = None
           /\ \A i, j \in 1..Len(l) : i < j => l[i] < l[j]
           /\ LinkedSet(q) = (1..Len(q.nodes)) \ RemovedNodes(s)
           /\ l # <<>> => q.head = l[1] /\ q.tail = l[Len(l)]
           /\ peek_front(q) = IF l = <<>> THEN None ELSE q.nodes[l[1]].key
           /\ is_empty(q) <=> (q.head = None /\ q.tail = None)
           /\ (q.head = None) <=> (q.tail = None)

\* C29 witness: of four appended nodes the second was removed from between
\* its neighbours, then the first (head) and the fourth (tail); the third
\* is left.
C29_Witness ==
    /\ Len(queue[1].nodes) = 4
    /\ Linked(queue[1]) = <<3>>
    /\ queue[1].nodes[2].prev = 1
    /\ queue[1].nodes[2].next = 3
    /\ Len(removed[1]) = 3
    /\ removed[1][2].node = 1
    /\ removed[1][3].node = 4

\* Every join key of the input is in the respective master table.
AllKeysPresent ==
    \A i \in 1..Len(df) :
        /\ \E j \in 1..Len(Master_Customer) : Master_Customer[j] = df[i].Customer_ID
        /\ \E j \in 1..Len(Master_Product) : Master_Product[j] = df[i].Product_ID

AllTerminated ==
    /\ producer_pc = "done"
    /\ Terminated(1)
    /\ Terminated(2)
    /\ main_pc \in {"done", "failed"}

\* C30: when every join key of the input is in its master table and no
\* fetch and no insert raises, then under fair scheduling the producer,
\* both stages and main all end (with queues of capacity 2 and 1).
C30_DeadlockFree ==
    AllKeysPresent ~> (AllTerminated \/ fetch_faults < MaxFetchErrors)

\* C30 witness: all threads have ended on an input longer than either
\* queue, every key present, no fetch having raised, every tuple joined by
\* both stages.
C30_Witness ==
    /\ AllTerminated
    /\ AllKeysPresent
    /\ fetch_faults = MaxFetchErrors
    /\ Len(df) = MaxStream
    /\ total_joined[2] = MaxStream
    /\ main_pc = "done"

====
